---- MODULE Spec2Model ----
(***************************************************************************)
(* Model of doc_enum: AutoDocedEnum (src/doc_enum.py), a self-numbering,   *)
(* self-documenting enumeration base class, and of the two helpers that    *)
(* the sample error table adds (src/sample.py: get_msg, get_exception).    *)
(*                                                                         *)
(* Python values are tagged records [t, v]: t is the Python type and v the *)
(* payload.  A Python string is a sequence of tokens; the token "{}" is a  *)
(* positional format placeholder, every other token is literal text.       *)
(*                                                                         *)
(* The enum machinery of the standard library that the class relies on     *)
(* (creation of one member per class-body entry, registration of the       *)
(* member under the value it had when __new__ returned) is modelled as     *)
(* CPython 3.11 and later do it.                                           *)
(***************************************************************************)
EXTENDS Integers, Sequences, FiniteSets, TLC

(***************************************************************************)
(* Bounds                                                                  *)
(***************************************************************************)
\* total number of items declared over all enumerations of one run
MaxItems == 3

(***************************************************************************)
(* Python values                                                           *)
(***************************************************************************)
None == [t |-> "None", v |-> 0]

IntV(n) == [t |-> "int", v |-> n]

StrV(toks) == [t |-> "str", v |-> toks]

ListV(xs) == [t |-> "list", v |-> xs]

\* repr() of a value inside a list: strings are quoted
RECURSIVE PyRepr(_), ReprJoin(_)
PyRepr(x) ==
    CASE x.t = "str"  -> <<"'">> \o x.v \o <<"'">>
      [] x.t = "int"  -> <<ToString(x.v)>>
      [] x.t = "None" -> <<"None">>
      [] x.t = "list" -> <<"[">> \o ReprJoin(x.v) \o <<"]">>

\* the reprs of the elements of a list, separated by ", "
ReprJoin(xs) ==
    IF xs = <<>> THEN <<>>
    ELSE IF Len(xs) = 1 THEN PyRepr(xs[1])
    ELSE PyRepr(xs[1]) \o <<", ">> \o ReprJoin(Tail(xs))

\* str(x): the tokens of the string Python builds from x
PyStr(x) == IF x.t = "str" THEN x.v ELSE PyRepr(x)

\* bool(x), as used by "if param:" and "if doc:"
Truthy(x) ==
    CASE x.t = "None" -> FALSE
      [] x.t = "int"  -> x.v # 0
      [] x.t = "str"  -> x.v # <<>>
      [] x.t = "list" -> x.v # <<>>

Placeholder == "{}"

NumPlaceholders(toks) == Cardinality({i \in 1..Len(toks) : toks[i] = Placeholder})

\* template.format(param) with one positional argument: every "{}" asks for
\* the next positional argument, so a second "{}" raises IndexError
RECURSIVE Subst(_, _)
Subst(toks, param) ==
    IF toks = <<>> THEN <<>>
    ELSE IF Head(toks) = Placeholder THEN PyStr(param) \o Subst(Tail(toks), param)
    ELSE <<Head(toks)>> \o Subst(Tail(toks), param)

Format(toks, param) ==
    IF NumPlaceholders(toks) > 1 THEN [ok |-> FALSE, s |-> <<>>]
    ELSE [ok |-> TRUE, s |-> Subst(toks, param)]

(***************************************************************************)
(* Inputs                                                                  *)
(***************************************************************************)
Base == "AutoDocedEnum"

Classes == {"E1", "E2"}

ClassOrder == <<"E1", "E2">>

Names == <<"A", "B", "C", "D", "E", "F">>

\* __initial_number__ of a subclass; 1 is the inherited default
DefaultInitialNumber == 1

DefaultKeys == [dict_name |-> "name", dict_value |-> "value", dict_doc |-> "doc"]

SampleKeys == [dict_name |-> "error", dict_value |-> "code", dict_doc |-> "msg"]

\* the class attributes of a subclass: all inherited, or all overridden
\* (the initial number as in the docstring's ClientSideError, the keys as in
\* the sample's ErrorStatus)
ClassConfigs ==
    {[initial_number |-> DefaultInitialNumber] @@ DefaultKeys,
     [initial_number |-> 400] @@ SampleKeys}

\* a description with a placeholder, and one that is not a string
Template == StrV(<<"missing ", Placeholder>>)

NonString == IntV(7)

\* the argument tuples of a class-body entry: "name = d" is (d,) and
\* "name = (v, d)" is (v, d); the empty tuple and the triple fail
ArgChoices ==
    {<<Template>>,
     <<IntV(2), Template>>, <<IntV(409), NonString>>,
     <<>>, <<IntV(1), Template, IntV(3)>>}

Params == {None, IntV(0), StrV(<<>>), ListV(<<>>), ListV(<<StrV(<<"10001">>)>>)}

\* the params passed to get_exception
ExcParams == {None, ListV(<<StrV(<<"10001">>)>>)}

Statuses == {404}

(***************************************************************************)
(* State                                                                   *)
(***************************************************************************)
VARIABLES
    status,        \* per class: "undefined", "defining", "defined", "failed"
    cfg,           \* per class: initial_number and the three key names
    last_number,   \* the class attribute __last_number__, per class and Base
    body,          \* per class: the entries of the class body, in order
    members,       \* per class: the members, in definition order
    member_map,    \* per class: name -> index into members
    value2member,  \* per class: construction-time value -> index into members
    ret            \* what the last statement returned or raised

vars == <<status, cfg, last_number, body, members, member_map, value2member, ret>>

\* a class attribute that is not set, and one that is
Unset == [set |-> FALSE, n |-> 0]

Attr(n) == [set |-> TRUE, n |-> n]

NoRet == [op |-> "none"]

EmptyFun == [x \in {} |-> 0]

NoCfg == [initial_number |-> DefaultInitialNumber] @@ DefaultKeys

Init ==
    /\ status = [c \in Classes |-> "undefined"]
    /\ cfg = [c \in Classes |-> NoCfg]
    /\ last_number = [c \in Classes \cup {Base} |-> Unset]
    /\ body = [c \in Classes |-> <<>>]
    /\ members = [c \in Classes |-> <<>>]
    /\ member_map = [c \in Classes |-> EmptyFun]
    /\ value2member = [c \in Classes |-> EmptyFun]
    /\ ret = NoRet

(***************************************************************************)
(* Definition of an enumeration                                            *)
(***************************************************************************)
TotalItems == Len(body["E1"]) + Len(body["E2"])

NoneDefining == \A c \in Classes : status[c] # "defining"

\* "class c(AutoDocedEnum):" with the class attributes k; class statements
\* run one after the other
BeginClass(c, k) ==
    /\ NoneDefining
    /\ status[c] = "undefined"
    /\ \A i \in 1..Len(ClassOrder) :
          ClassOrder[i] = c => \A j \in 1..(i-1) : status[ClassOrder[j]] # "undefined"
    /\ status' = [status EXCEPT ![c] = "defining"]
    /\ cfg' = [cfg EXCEPT ![c] = k]
    /\ ret' = NoRet
    /\ UNCHANGED <<last_number, body, members, member_map, value2member>>

BodyNames(c) == {body[c][i].name : i \in 1..Len(body[c])}

\* the exception a class statement raises: at entry k of the body
Raised(c, why, k) == [op |-> "class", cls |-> c, exc |-> "TypeError", why |-> why,
                      at |-> k, of |-> Len(body[c])]

\* one entry "nm = args" of the class body; the enum class dictionary
\* refuses a name that is already a member name
Assign(c, nm, args) ==
    /\ status[c] = "defining"
    /\ TotalItems < MaxItems
    /\ IF nm \in BodyNames(c)
         THEN /\ status' = [status EXCEPT ![c] = "failed"]
              /\ body' = [body EXCEPT ![c] = <<>>]
              /\ ret' = Raised(c, "reused key", Len(body[c]) + 1)
         ELSE /\ body' = [body EXCEPT ![c] = Append(@, [name |-> nm, args |-> args])]
              /\ ret' = NoRet
              /\ UNCHANGED status
    /\ UNCHANGED <<cfg, last_number, members, member_map, value2member>>

\* mutant: the default of the counter is the initial number itself
GetLastNumber_NoSeedOffset(ln, c) ==
    IF ln[c].set THEN ln[c].n
    ELSE IF ln[Base].set THEN ln[Base].n
    ELSE cfg[c].initial_number

\* getattr(cls, "__last_number__", cls.__initial_number__ - 1): the class's
\* own attribute, else the base class's, else the default
GetLastNumber(ln, c) ==
    IF ln[c].set THEN ln[c].n
    ELSE IF ln[Base].set THEN ln[Base].n
    ELSE cfg[c].initial_number - 1

\* mutant: the counter is stored on the base class, shared by all subclasses
CounterOwner_Base(c) == Base

\* the class on which __new__ stores the counter
CounterOwner(c) == c

\* __new__: advance the counter of the class, the new member's value is it
EnumNew(ln, c) ==
    LET n == GetLastNumber(ln, c) + 1
    IN  [last_number |-> [ln EXCEPT ![CounterOwner(c)] = Attr(n)], value |-> IntV(n)]

\* mutant: __init__ never replaces the number that __new__ assigned
EnumInit_KeepAuto(value0, args) ==
    IF Len(args) > 2
      THEN [ok |-> FALSE, why |-> "more than 2 arguments",
            value |-> value0, doc |-> <<>>]
    ELSE IF Len(args) = 0
      THEN [ok |-> FALSE, why |-> "not readable", value |-> value0, doc |-> <<>>]
    ELSE [ok |-> TRUE, why |-> "", value |-> value0,
          doc |-> IF Len(args) > 1 THEN PyStr(args[2]) ELSE PyStr(args[1])]

\* mutant: the limit on the number of arguments is 3
EnumInit_AllowThree(value0, args) ==
    IF Len(args) > 3
      THEN [ok |-> FALSE, why |-> "more than 2 arguments",
            value |-> value0, doc |-> <<>>]
    ELSE IF Len(args) = 0
      THEN [ok |-> FALSE, why |-> "not readable", value |-> value0, doc |-> <<>>]
    ELSE [ok |-> TRUE, why |-> "",
          value |-> IF Len(args) > 1 THEN args[1] ELSE value0,
          doc |-> IF Len(args) > 1 THEN PyStr(args[2]) ELSE PyStr(args[1])]

\* __init__: the description and, for a (value, description) pair, the value
EnumInit(value0, args) ==
    IF Len(args) > 2
      THEN [ok |-> FALSE, why |-> "more than 2 arguments",
            value |-> value0, doc |-> <<>>]
    ELSE IF Len(args) = 0
      THEN [ok |-> FALSE, why |-> "not readable",
            value |-> value0, doc |-> <<>>]
    ELSE LET value == args[1]
             doc == Tail(args)
         IN  [ok |-> TRUE, why |-> "",
              value |-> IF doc # <<>> THEN value ELSE value0,
              doc |-> IF doc # <<>> THEN PyStr(doc[1]) ELSE PyStr(value)]

\* the enum machinery registers the member: a member whose construction-time
\* value is already registered becomes an alias of the registered member,
\* any other is appended to the members
Register(st, nm, value0, m) ==
    IF value0.v \in DOMAIN st.value2member
      THEN [st EXCEPT !.member_map = (nm :> st.value2member[value0.v]) @@ @]
      ELSE LET idx == Len(st.members) + 1
           IN  [st EXCEPT !.members = Append(@, m),
                          !.member_map = (nm :> idx) @@ @,
                          !.value2member = (value0.v :> idx) @@ @]

\* mutant: an explicit value becomes the counter of the class
CreateMember_CarryOver(st, c, e) ==
    LET new == EnumNew(st.last_number, c)
        ini == EnumInit(new.value, e.args)
        ln == IF ini.ok /\ Len(e.args) = 2
                THEN [new.last_number EXCEPT ![c] = Attr(ini.value.v)]
                ELSE new.last_number
        st1 == [st EXCEPT !.last_number = ln]
    IN  IF ~ini.ok
          THEN [st1 EXCEPT !.ok = FALSE, !.why = ini.why, !.at = Len(st.members) + 1]
          ELSE Register(st1, e.name, new.value,
                        [name |-> e.name, value |-> ini.value, doc |-> ini.doc])

\* the creation of one member from the entry e: __new__, __init__, Register
CreateMember(st, c, e) ==
    LET new == EnumNew(st.last_number, c)
        ini == EnumInit(new.value, e.args)
        st1 == [st EXCEPT !.last_number = new.last_number]
    IN  IF ~ini.ok
          THEN [st1 EXCEPT !.ok = FALSE, !.why = ini.why, !.at = Len(st.members) + 1]
          ELSE Register(st1, e.name, new.value,
                        [name |-> e.name, value |-> ini.value, doc |-> ini.doc])

\* the members are created in the order of the class body; the first
\* failure ends the creation
RECURSIVE CreateMembers(_, _, _)
CreateMembers(st, c, es) ==
    IF es = <<>> \/ ~st.ok THEN st
    ELSE CreateMembers(CreateMember(st, c, Head(es)), c, Tail(es))

\* the end of the class statement: the members are created; when a member's
\* creation raises, the class statement raises and no class is bound
EndClass(c) ==
    /\ status[c] = "defining"
    /\ LET st == CreateMembers([last_number |-> last_number, members |-> <<>>,
                                member_map |-> EmptyFun, value2member |-> EmptyFun,
                                ok |-> TRUE, why |-> "", at |-> 0], c, body[c])
       IN  IF st.ok
             THEN /\ status' = [status EXCEPT ![c] = "defined"]
                  /\ last_number' = st.last_number
                  /\ members' = [members EXCEPT ![c] = st.members]
                  /\ member_map' = [member_map EXCEPT ![c] = st.member_map]
                  /\ value2member' = [value2member EXCEPT ![c] = st.value2member]
                  /\ ret' = NoRet
                  /\ UNCHANGED body
             ELSE /\ status' = [status EXCEPT ![c] = "failed"]
                  /\ last_number' = [st.last_number EXCEPT ![c] = Unset]
                  /\ body' = [body EXCEPT ![c] = <<>>]
                  /\ ret' = Raised(c, st.why, st.at)
                  /\ UNCHANGED <<members, member_map, value2member>>
    /\ UNCHANGED cfg

(***************************************************************************)
(* Operations on a defined enumeration                                     *)
(***************************************************************************)
\* dct[k] = x on a Python dict
Put(dct, k, x) == [y \in DOMAIN dct \cup {k} |-> IF y = k THEN x ELSE dct[y]]

\* mutant: the members are listed last to first
get_choices_Reversed(c) ==
    [i \in 1..Len(members[c]) |->
        <<members[c][Len(members[c]) + 1 - i].value,
          members[c][Len(members[c]) + 1 - i].doc>>]

\* iteration over the class: the members in definition order
get_choices(c) ==
    [i \in 1..Len(members[c]) |-> <<members[c][i].value, members[c][i].doc>>]

\* mutant: the keys are the base class's, whatever the subclass configures
get_dict_DefaultKeys(c, i) ==
    LET m == members[c][i]
    IN  Put(Put(Put(EmptyFun, DefaultKeys.dict_name, StrV(<<m.name>>)),
                DefaultKeys.dict_value, m.value),
            DefaultKeys.dict_doc, StrV(m.doc))

\* {__dict_name__: name, __dict_value__: value, __dict_doc__: __doc__}
get_dict(c, i) ==
    LET m == members[c][i]
    IN  Put(Put(Put(EmptyFun, cfg[c].dict_name, StrV(<<m.name>>)),
                cfg[c].dict_value, m.value),
            cfg[c].dict_doc, StrV(m.doc))

\* the condition under which get_msg formats the description
ParamGiven(param) == Truthy(param)

\* get_msg: the dict of the member, its description formatted with param
get_msg(c, i, param) ==
    LET dct == get_dict(c, i)
        key == cfg[c].dict_doc
    IN  IF ParamGiven(param)
          THEN LET f == Format(dct[key].v, param)
               IN  IF f.ok THEN [ok |-> TRUE, dct |-> Put(dct, key, StrV(f.s))]
                   ELSE [ok |-> FALSE, dct |-> dct]
          ELSE [ok |-> TRUE, dct |-> dct]

\* HTTPError(status, msg)
HTTPError(st, msg) == [status |-> st, msg |-> msg]

\* mutant: the formatted description is written back to the member
MembersAfterMsg_WriteBack(c, i, param) ==
    IF Truthy(param) /\ Format(members[c][i].doc, param).ok
      THEN [members EXCEPT ![c][i].doc = Format(members[c][i].doc, param).s]
      ELSE members

\* the members after a call of get_msg: the call writes to its own dict only
MembersAfterMsg(c, i, param) == members

Callable(c) == NoneDefining /\ status[c] = "defined"

GetChoices(c) ==
    /\ Callable(c)
    /\ ret' = [op |-> "get_choices", cls |-> c, val |-> get_choices(c)]
    /\ UNCHANGED <<status, cfg, last_number, body, members, member_map, value2member>>

GetDict(c, i) ==
    /\ Callable(c)
    /\ i \in 1..Len(members[c])
    /\ ret' = [op |-> "get_dict", cls |-> c, idx |-> i, val |-> get_dict(c, i)]
    /\ UNCHANGED <<status, cfg, last_number, body, members, member_map, value2member>>

GetMsg(c, i, param) ==
    /\ Callable(c)
    /\ i \in 1..Len(members[c])
    /\ LET r == get_msg(c, i, param)
       IN  ret' = [op |-> "get_msg", cls |-> c, idx |-> i, param |-> param,
                   raised |-> ~r.ok, val |-> r.dct]
    /\ members' = MembersAfterMsg(c, i, param)
    /\ UNCHANGED <<status, cfg, last_number, body, member_map, value2member>>

GetException(c, i, st, param) ==
    /\ Callable(c)
    /\ i \in 1..Len(members[c])
    /\ LET r == get_msg(c, i, param)
       IN  ret' = [op |-> "get_exception", cls |-> c, idx |-> i, param |-> param,
                   raised |-> ~r.ok, val |-> HTTPError(st, r.dct)]
    /\ members' = MembersAfterMsg(c, i, param)
    /\ UNCHANGED <<status, cfg, last_number, body, member_map, value2member>>

\* the names an entry can take: the next unused one, or the first one again
EntryNames(c) == {Names[Len(body[c]) + 1]} \cup {Names[1]}

Next ==
    \/ \E c \in Classes, k \in ClassConfigs : BeginClass(c, k)
    \/ \E c \in Classes : \E nm \in EntryNames(c), args \in ArgChoices : Assign(c, nm, args)
    \/ \E c \in Classes : EndClass(c)
    \/ \E c \in Classes : GetChoices(c)
    \/ \E c \in Classes, i \in 1..MaxItems : GetDict(c, i)
    \/ \E c \in Classes, i \in 1..MaxItems, p \in Params : GetMsg(c, i, p)
    \/ \E c \in Classes, i \in 1..MaxItems, st \in Statuses, p \in ExcParams :
          GetException(c, i, st, p)

Spec == Init /\ [][Next]_vars

(***************************************************************************)
(* Properties                                                              *)
(***************************************************************************)
Defined(c) == status[c] = "defined"

IsAuto(e) == Len(e.args) = 1

IsExplicit(e) == Len(e.args) = 2

\* the k-th declared item of c, looked up by its name as c.<name> does
Item(c, k) == members[c][member_map[c][body[c][k].name]]

\* what the class body says about its k-th entry
GivenDoc(c, k) == PyStr(body[c][k].args[Len(body[c][k].args)])

PositionNumber(c, k) == IntV(cfg[c].initial_number + k - 1)

GivenValue(c, k) ==
    IF IsExplicit(body[c][k]) THEN body[c][k].args[1] ELSE PositionNumber(c, k)

AllAuto(c) == \A k \in 1..Len(body[c]) : IsAuto(body[c][k])

C3_ExplicitValue ==
    \A c \in Classes :
        Defined(c) =>
            \A k \in 1..Len(body[c]) :
                IsExplicit(body[c][k]) =>
                    /\ Item(c, k).value = body[c][k].args[1]
                    /\ Item(c, k).doc = PyStr(body[c][k].args[2])

C3_Witness ==
    \E c \in Classes :
        /\ Defined(c) /\ Len(body[c]) = 3
        /\ body[c][3].args = <<IntV(2), Template>>
        /\ last_number[c] = Attr(cfg[c].initial_number + 2)
        /\ Item(c, 3).value = IntV(2)
        /\ Item(c, 3).doc = <<"missing ", Placeholder>>

\* C4 as stated: in a defined enumeration no two items share a name and no
\* two items share a value
C4_UniqueNamesAndValues ==
    \A c \in Classes :
        Defined(c) =>
            \A i, j \in 1..Len(members[c]) :
                i # j => /\ members[c][i].name # members[c][j].name
                         /\ members[c][i].value # members[c][j].value

\* C5: get_choices returns one (value, description) pair per declared item,
\* in declaration order
C5_Choices ==
    ret.op = "get_choices" =>
        /\ Len(ret.val) = Len(body[ret.cls])
        /\ \A i \in 1..Len(body[ret.cls]) :
              ret.val[i] = <<GivenValue(ret.cls, i), GivenDoc(ret.cls, i)>>

C5_Witness ==
    /\ ret.op = "get_choices"
    /\ Len(ret.val) = 3
    /\ IsAuto(body[ret.cls][1])
    /\ IsAuto(body[ret.cls][2])
    /\ IsExplicit(body[ret.cls][3])
    /\ ret.val[2][1] = ret.val[3][1]

HasTriple(c) == \E k \in 1..Len(body[c]) : Len(body[c][k].args) > 2

\* C6: a class body with an item of more than two arguments ends in a
\* TypeError and no enumeration, wherever the item stands
C6_TooManyArguments ==
    [][\A c \in Classes :
          (status[c] = "defining" /\ HasTriple(c) /\ status'[c] # "defining") =>
              /\ status'[c] = "failed"
              /\ ret'.op = "class"
              /\ ret'.exc = "TypeError"
              /\ members'[c] = <<>>]_vars

C6_Witness ==
    /\ ret.op = "class"
    /\ ret.why = "more than 2 arguments"
    /\ ret.at = 2
    /\ ret.of = 3
    /\ status[ret.cls] = "failed"

\* C7 as stated: get_msg without param returns the exported dict; with any
\* param other than None, falsy ones included, the description of the
\* returned dict is the template with param substituted
C7_FormatsWhenSupplied ==
    ret.op = "get_msg" =>
        LET m == members[ret.cls][ret.idx]
            k == cfg[ret.cls]
        IN  /\ ret.param = None => ret.val = get_dict(ret.cls, ret.idx)
            /\ ret.param # None =>
                  /\ ret.val[k.dict_doc] = StrV(Subst(m.doc, ret.param))
                  /\ ret.val[k.dict_name] = StrV(<<m.name>>)
                  /\ ret.val[k.dict_value] = m.value

\* C8: get_dict returns a mapping whose keys are exactly the three
\* configured keys, mapped to the item's name, value and description; the
\* keys are name, value and doc when nothing is configured
C8_DictKeys ==
    ret.op = "get_dict" =>
        LET c == ret.cls
            i == ret.idx
            k == cfg[c]
        IN  /\ DOMAIN ret.val = {k.dict_name, k.dict_value, k.dict_doc}
            /\ ret.val[k.dict_name] = StrV(<<body[c][i].name>>)
            /\ ret.val[k.dict_value] = GivenValue(c, i)
            /\ ret.val[k.dict_doc] = StrV(GivenDoc(c, i))
            /\ k = NoCfg => DOMAIN ret.val = {"name", "value", "doc"}

C8_Witness ==
    /\ ret.op = "get_dict"
    /\ ret.idx = 2
    /\ DOMAIN ret.val = {"error", "code", "msg"}
    /\ ret.val["code"] = IntV(409)
    /\ ret.val["msg"] = StrV(<<"7">>)

CallOps == {"get_choices", "get_dict", "get_msg", "get_exception"}

\* C9: a call of get_choices, get_dict, get_msg or get_exception leaves the
\* items, their order and their fields unchanged, and a get_msg() or
\* get_dict() after it returns the unformatted description
C9_CallsChangeNothing ==
    [][ret'.op \in CallOps =>
          /\ members' = members
          /\ member_map' = member_map
          /\ body' = body
          /\ status' = status
          /\ cfg' = cfg
          /\ (ret'.op = "get_dict" \/ (ret'.op = "get_msg" /\ ret'.param = None)) =>
                ret'.val[cfg[ret'.cls].dict_doc] = StrV(GivenDoc(ret'.cls, ret'.idx))]_vars

C9_Witness ==
    /\ ret.op = "get_msg"
    /\ Truthy(ret.param)
    /\ ret.val[cfg[ret.cls].dict_doc] = StrV(<<"missing ", "[", "'", "10001", "'", "]">>)
    /\ members[ret.cls][ret.idx].doc = <<"missing ", Placeholder>>

\* C10: the counter is kept per enumeration and advances by one for every
\* declared item, so a description-only item has value initial number +
\* number of items declared before it, whatever was declared before it and
\* whatever other enumerations exist
C10_PerClassCounter ==
    \A c \in Classes :
        Defined(c) =>
            /\ \A k \in 1..Len(body[c]) :
                  IsAuto(body[c][k]) => Item(c, k).value = PositionNumber(c, k)
            /\ last_number[c] =
                  IF body[c] = <<>> THEN Unset
                  ELSE Attr(cfg[c].initial_number + Len(body[c]) - 1)
            /\ ~last_number[Base].set

C10_Witness ==
    /\ Defined("E1") /\ Defined("E2")
    /\ Len(body["E1"]) = 2 /\ Len(body["E2"]) = 1
    /\ IsExplicit(body["E1"][1]) /\ IsAuto(body["E1"][2])
    /\ IsAuto(body["E2"][1])
    /\ cfg["E1"] = cfg["E2"]
    /\ Item("E2", 1).value = IntV(cfg["E2"].initial_number)

====
